---- MODULE Spec2Model ----
(***************************************************************************)
(* Model of rusty_libimobiledevice: the dependency locks of                *)
(* src/memory_lock.rs (IdeviceMemoryLock, LockdowndClientLock,             *)
(* LockdowndServiceLock, MobileImageMounterLock) and the resource wrappers *)
(* of src/idevice.rs and src/services that call the native library.        *)
(***************************************************************************)
EXTENDS Integers, Sequences, FiniteSets, TLC

(***************************************************************************)
(* Bounds                                                                   *)
(***************************************************************************)
\* number of threads that call into the locks concurrently
NThreads == 2
\* number of distinct native descriptor contents handed to new()
MaxVal == 1

Threads == 1..NThreads
Vals == 1..MaxVal

(***************************************************************************)
(* The four lock structs and the five Arc<Mutex<Option<_>>> cells they     *)
(* create.  A cell is named after the struct field that allocates it.      *)
(***************************************************************************)
Nodes == {"idevice", "client", "service", "mim"}

Cells == {"idevice", "client", "service", "mim", "mim_service"}

\* Option<T>: None and Some(v)
None == <<>>

Some(v) == <<v>>

IsSome(o) == o # None

\* the cell behind the field `pointer` of a lock struct
OwnCell(n) == n

\* whether check() of the struct reads a dependency cell before its own
HasParent(n) == n # "idevice"

\* every struct made to depend on the device's cell
ParentCellDevice(n) == "idevice"

\* the cell behind the second field of a lock struct, the one check() reads
\* first: idevice_pointer, lockdownd_client_pointer, service_pointer
ParentCell(n) ==
    CASE n = "client" -> "idevice"
      [] n = "service" -> "client"
      [] n = "mim" -> "mim_service"

\* the resource a resource is derived from (header comment of memory_lock.rs
\* and the types of the dependency fields)
DependsOn(n) ==
    CASE n = "client" -> "idevice"
      [] n = "service" -> "client"
      [] n = "mim" -> "service"

RECURSIVE ChainToRoot(_)
\* a node and every resource it is derived from, up to the device
ChainToRoot(n) == IF n = "idevice" THEN {n} ELSE {n} \cup ChainToRoot(DependsOn(n))

VARIABLES
    slot,       \* allocated cell -> Option value held in the Mutex
    native,     \* Some(content of the native lockdownd_service_descriptor), once one exists
    held,       \* thread -> set of cells whose MutexGuard the thread holds
    pc,         \* thread -> position inside check()/invalidate()
    call,       \* thread -> the call the thread is in
    ret,        \* thread -> value returned by the call that has just completed
    invDone,    \* nodes on which an invalidate() has returned
    invBefore,  \* thread -> whether invalidate() had returned on its call's node when the call was entered
    dropped,    \* nodes whose lock struct has gone out of scope
    wrap,       \* resource wrapper (Device, AfcClient) -> "absent", "live" or "dropped"
    nativeLog,  \* the calls made into the native library so far
    proxy,      \* the CompanionProxy of src/services/companion_proxy.rs and the native calls on its client
    relay,      \* the native requests a FileRelay::request_sources call has issued, and its result
    usbmux,     \* the device list of the native library and what get_devices/get_device made of it
    netdev,     \* the arguments of a Device::new call, the native struct it built, and what was read back
    sb,         \* the get_interface_orientation calls and Orientation conversions made so far
    tool        \* one run of tools/src/idevicedebug.rs: its arguments, its position and what it did

\* the state of the locks of memory_lock.rs, and what is not part of it
lockVars == <<slot, native, held, pc, call, ret, invDone, invBefore>>

\* the state of the service and device wrappers modelled one by one below
serviceVars == <<proxy, relay, usbmux, netdev, sb, tool>>

nonLockVars == <<dropped, wrap, nativeLog, serviceVars>>

\* the state of the resource wrappers, and what is not part of it
wrapVars == <<wrap, nativeLog>>

nonWrapVars == <<slot, native, held, pc, call, ret, invDone, invBefore, dropped, serviceVars>>

vars == <<slot, native, held, pc, call, ret, invDone, invBefore, dropped, wrap, nativeLog,
          proxy, relay, usbmux, netdev, sb, tool>>

\* the state of the locks and of the wrappers of the sections above
coreVars == <<lockVars, dropped, wrapVars>>

Wrappers == {"device", "afc"}

\* netdev before any Device::new call
NoArgs == [udid |-> << >>, network |-> FALSE, ip |-> << >>, mux_id |-> 0]

NoDev == [udid |-> <<0>>, mux_id |-> 0, conn_type |-> 0, conn_data |-> << >>,
          version |-> 0, device_class |-> 0]

NoRead == [fn |-> "none", null |-> FALSE, crashed |-> FALSE, val |-> << >>]

\* what get_devices and get_device return: dev is the list entry the returned
\* Device was made from, devs the entries of the returned Vec<Device>
MuxErr(e) == [kind |-> "Err", err |-> e, dev |-> 0, devs |-> << >>]

MuxOk(d, ds) == [kind |-> "Ok", err |-> "none", dev |-> d, devs |-> ds]

\* tool before idevicedebug has been started
NotRun == [pc |-> "none", out |-> "none", args |-> << >>, i |-> 0, udid |-> "", app |-> "",
           reads |-> << >>, steps |-> << >>]

NoCall == [op |-> "none", node |-> "none"]

NoRet == [kind |-> "none", val |-> None]

RetErr == [kind |-> "Err", val |-> None]

RetOk(v) == [kind |-> "Ok", val |-> Some(v)]

RetUnit == [kind |-> "unit", val |-> None]

Built(n) == OwnCell(n) \in DOMAIN slot

\* the lock struct of the node exists: only then can a method be called on it
\* or one of its Arcs be cloned
Alive(n) == Built(n) /\ n \notin dropped

\* std::sync::Mutex: lock() blocks while another thread holds the guard
MutexFree(c) == \A t \in Threads : c \notin held[t]

\* the thread is between the entry and the return of a call
InCall(t) == pc[t] \notin {"idle", "done"}

Init ==
    /\ slot = << >>
    /\ native = None
    /\ held = [t \in Threads |-> {}]
    /\ pc = [t \in Threads |-> "idle"]
    /\ call = [t \in Threads |-> NoCall]
    /\ ret = [t \in Threads |-> NoRet]
    /\ invDone = {}
    /\ invBefore = [t \in Threads |-> FALSE]
    /\ dropped = {}
    /\ wrap = [w \in Wrappers |-> "absent"]
    /\ nativeLog = {}
    /\ proxy = [state |-> "absent", log |-> << >>, last |-> "none", ret |-> "none"]
    /\ relay = [args |-> << >>, native |-> << >>, rets |-> << >>]
    /\ usbmux = [call |-> "none", list |-> << >>, listRes |-> "Success", udid |-> "none",
                 made |-> << >>, owned |-> {}, frees |-> << >>, ret |-> MuxErr("none")]
    /\ netdev = [out |-> "none", args |-> NoArgs, dev |-> NoDev, read |-> NoRead]
    /\ sb = << >>
    /\ tool = NotRun

(***************************************************************************)
(* new(): an Arc of a Mutex of Some(copy of the struct behind `pointer`)   *)
(***************************************************************************)
\* a constructor takes no lock and shares nothing until it has returned
Constructed(t) ==
    /\ pc[t] = "idle"
    /\ UNCHANGED <<held, pc, call, ret, invDone, invBefore, nonLockVars>>

IdeviceNew(t, v) ==
    /\ ~Built("idevice")
    /\ slot' = slot @@ ("idevice" :> Some(v))
    /\ UNCHANGED native
    /\ Constructed(t)

\* idevice_pointer is a clone of the Arc of an existing IdeviceMemoryLock
ClientNew(t, v) ==
    /\ Alive("idevice")
    /\ ~Built("client")
    /\ slot' = slot @@ ("client" :> Some(v))
    /\ UNCHANGED native
    /\ Constructed(t)

\* lockdownd_client_pointer is a clone of the Arc of an existing LockdowndClientLock
ServiceNew(t, v) ==
    /\ Alive("client")
    /\ ~Built("service")
    /\ slot' = slot @@ ("service" :> Some(v))
    /\ native' = Some(v)
    /\ Constructed(t)

\* the cells MobileImageMounterLock::new allocates: service_pointer is the raw
\* lockdownd_service_descriptor_t, and the struct behind it (content d) is
\* copied into a second Arc made here
MimCells(v, d) == ("mim" :> Some(v)) @@ ("mim_service" :> Some(d))

MimNew(t, v) ==
    /\ Built("service")
    /\ ~Built("mim")
    /\ slot' = slot @@ MimCells(v, native[1])
    /\ UNCHANGED native
    /\ Constructed(t)

(***************************************************************************)
(* check(&self)                                                            *)
(***************************************************************************)
KeepGuard(h, c) == h

\* the MutexGuard of a cell is dropped where the match that locked it ends
DropGuard(h, c) == h \ {c}

\* &mut self of invalidate() excludes every other borrow of the same struct
NoInvalidateOn(n) ==
    \A u \in Threads : ~(InCall(u) /\ call[u] = [op |-> "invalidate", node |-> n])

NoCallOn(n) == \A u \in Threads : ~(InCall(u) /\ call[u].node = n)

\* the cell check() locks first
FirstCell(n) == IF HasParent(n) THEN ParentCell(n) ELSE OwnCell(n)

\* a Mutex some thread panicked under
LockPoisoned(c) == "Err"

\* what lock() hands out once the Mutex is free: Err only when a thread has
\* panicked while it held the guard, and the code run under a guard (a match,
\* the clone of a plain struct, Option::take) does not panic
LockResult(c) == "Ok"

\* entry of check() up to the first lock(), which blocks while the Mutex is
\* held; Err(_) => return Err(())
CheckEnter(t, n) ==
    /\ pc[t] = "idle"
    /\ Alive(n)
    /\ NoInvalidateOn(n)
    /\ MutexFree(FirstCell(n))
    /\ call' = [call EXCEPT ![t] = [op |-> "check", node |-> n]]
    /\ invBefore' = [invBefore EXCEPT ![t] = n \in invDone]
    /\ IF LockResult(FirstCell(n)) = "Ok"
         THEN /\ held' = [held EXCEPT ![t] = @ \cup {FirstCell(n)}]
              /\ pc' = [pc EXCEPT ![t] = IF HasParent(n) THEN "read_parent" ELSE "read_own"]
              /\ UNCHANGED ret
         ELSE /\ pc' = [pc EXCEPT ![t] = "done"]
              /\ ret' = [ret EXCEPT ![t] = RetErr]
              /\ UNCHANGED held
    /\ UNCHANGED <<slot, native, invDone, nonLockVars>>

\* a first match that falls through in both arms
AfterParentFallThrough(o) == "lock_own"

\* what the first match of check() does with the parent's Option
AfterParent(o) == IF IsSome(o) THEN "lock_own" ELSE "done"

\* match *lock { Some(_) => {}, None => return Err(()) }; the guard is dropped
\* at the end of the match in both arms
CheckReadParent(t) ==
    LET c == ParentCell(call[t].node) IN
    /\ pc[t] = "read_parent"
    /\ held' = [held EXCEPT ![t] = DropGuard(@, c)]
    /\ pc' = [pc EXCEPT ![t] = AfterParent(slot[c])]
    /\ ret' = [ret EXCEPT ![t] = IF AfterParent(slot[c]) = "done" THEN RetErr ELSE @]
    /\ UNCHANGED <<slot, native, call, invDone, invBefore, nonLockVars>>

\* match self.pointer.lock(); Err(_) => Err(())
CheckLockOwn(t) ==
    /\ pc[t] = "lock_own"
    /\ MutexFree(OwnCell(call[t].node))
    /\ IF LockResult(OwnCell(call[t].node)) = "Ok"
         THEN /\ held' = [held EXCEPT ![t] = @ \cup {OwnCell(call[t].node)}]
              /\ pc' = [pc EXCEPT ![t] = "read_own"]
              /\ UNCHANGED ret
         ELSE /\ pc' = [pc EXCEPT ![t] = "done"]
              /\ ret' = [ret EXCEPT ![t] = RetErr]
              /\ UNCHANGED held
    /\ UNCHANGED <<slot, native, call, invDone, invBefore, nonLockVars>>

\* match *lock { Some(lock) => Ok(&mut lock.clone()), None => Err(()) }: the
\* Ok carries a raw pointer to the clone, a temporary of check()'s frame; val
\* is what that temporary holds
OwnResult(o) == IF IsSome(o) THEN RetOk(o[1]) ELSE RetErr

\* bytes that are the copy of no struct handed to new()
Junk == MaxVal + 1

\* what a read through the pointer of a returned Ok can find: the temporary
\* is dropped when check() returns, the pointer dangles from then on, and the
\* read finds the copy, if the dead frame was not reused yet, or other bytes
Deref(r) == {r.val, Some(Junk)}

\* second match of check(), the guard dropped, and the return to the caller
CheckReadOwn(t) ==
    LET c == OwnCell(call[t].node) IN
    /\ pc[t] = "read_own"
    /\ held' = [held EXCEPT ![t] = DropGuard(@, c)]
    /\ pc' = [pc EXCEPT ![t] = "done"]
    /\ ret' = [ret EXCEPT ![t] = OwnResult(slot[c])]
    /\ UNCHANGED <<slot, native, call, invDone, invBefore, nonLockVars>>

(***************************************************************************)
(* invalidate(&mut self): self.pointer.lock().unwrap().take()              *)
(***************************************************************************)
\* an invalidate() that reaches for the cell of the parent resource
InvalidateParentCell(n) == FirstCell(n)

\* self.pointer: the one cell invalidate() locks and takes from
InvalidateCell(n) == OwnCell(n)

\* entry of invalidate() up to lock(), which blocks while the Mutex is held
InvalidateEnter(t, n) ==
    /\ pc[t] = "idle"
    /\ Alive(n)
    /\ NoCallOn(n)
    /\ MutexFree(InvalidateCell(n))
    /\ LockResult(InvalidateCell(n)) = "Ok"    \* unwrap() panics on Err
    /\ held' = [held EXCEPT ![t] = @ \cup {InvalidateCell(n)}]
    /\ pc' = [pc EXCEPT ![t] = "inv_take"]
    /\ call' = [call EXCEPT ![t] = [op |-> "invalidate", node |-> n]]
    /\ invBefore' = [invBefore EXCEPT ![t] = n \in invDone]
    /\ UNCHANGED <<slot, native, ret, invDone, nonLockVars>>

\* a slot that is read but never cleared
TakeNothing(o) == o

\* a slot that a second invalidate() arms again
TakeToggle(o) == IF IsSome(o) THEN None ELSE Some(1)

\* Option::take(): what is left in the slot
Take(o) == None

\* take(), then the guard is dropped and invalidate() returns
InvalidateTake(t) ==
    LET c == InvalidateCell(call[t].node) IN
    /\ pc[t] = "inv_take"
    /\ slot' = [slot EXCEPT ![c] = Take(@)]
    /\ held' = [held EXCEPT ![t] = DropGuard(@, c)]
    /\ pc' = [pc EXCEPT ![t] = "done"]
    /\ ret' = [ret EXCEPT ![t] = RetUnit]
    /\ invDone' = invDone \cup {call[t].node}
    /\ UNCHANGED <<native, call, invBefore, nonLockVars>>

\* the caller has taken the returned value; the thread is free for its next call
Return(t) ==
    /\ pc[t] = "done"
    /\ pc' = [pc EXCEPT ![t] = "idle"]
    /\ call' = [call EXCEPT ![t] = NoCall]
    /\ ret' = [ret EXCEPT ![t] = NoRet]
    /\ invBefore' = [invBefore EXCEPT ![t] = FALSE]
    /\ UNCHANGED <<slot, native, held, invDone, nonLockVars>>

Step(t) ==
    \/ \E v \in Vals : IdeviceNew(t, v)
    \/ \E v \in Vals : ClientNew(t, v)
    \/ \E v \in Vals : ServiceNew(t, v)
    \/ \E v \in Vals : MimNew(t, v)
    \/ \E n \in Nodes : CheckEnter(t, n)
    \/ CheckReadParent(t)
    \/ CheckLockOwn(t)
    \/ CheckReadOwn(t)
    \/ \E n \in Nodes : InvalidateEnter(t, n)
    \/ InvalidateTake(t)
    \/ Return(t)

Next == \E t \in Threads : Step(t)

Spec == Init /\ [][Next]_vars

\* one thread only: every call returns before the next one starts
NextSeq == Step(1)

SpecSeq == Init /\ [][NextSeq]_vars

(***************************************************************************)
(* The life of the cells.  A lock struct holds its cells in Arcs and has   *)
(* no Drop of its own: when it goes out of scope its Arcs are released,    *)
(* and a cell is reclaimed when its last Arc is.                           *)
(***************************************************************************)
\* a struct that keeps no Arc of the parent's cell
CellsOfOwn(n) == {OwnCell(n)}

\* the Arcs in the fields of the lock struct of a node
CellsOf(n) == IF HasParent(n) THEN {OwnCell(n), ParentCell(n)} ELSE {OwnCell(n)}

\* the lock structs that hold an Arc of the cell
Holders(c) == {n \in Nodes : Alive(n) /\ c \in CellsOf(n)}

\* the strong count of the cell has come down to zero
Reclaimed(c) == c \in DOMAIN slot /\ Holders(c) = {}

\* the lock struct of a node goes out of scope, which the borrow checker
\* allows only when no call on it is in progress
DropLock(t, n) ==
    /\ pc[t] = "idle"
    /\ Alive(n)
    /\ NoCallOn(n)
    /\ dropped' = dropped \cup {n}
    /\ UNCHANGED <<lockVars, wrapVars, serviceVars>>

\* a single caller that also lets lock structs go out of scope
NextDrop ==
    \/ Step(1)
    \/ \E n \in Nodes : DropLock(1, n)

SpecDrop == Init /\ [][NextDrop]_vars

(***************************************************************************)
(* The resource wrappers: Device (src/idevice.rs) and AfcClient            *)
(* (src/services/afc.rs).  Each holds the raw native handle in `pointer`   *)
(* and nothing else; none of them owns a lock of memory_lock.rs.           *)
(***************************************************************************)
NativeResults == {"Success", "Error"}

\* the native functions that release a handle
FreeFns == {"idevice_free", "afc_client_free"}

\* one call into the native library made by a method of wrapper w: `checks`
\* and `invalidates` count the check() calls that returned Ok and the
\* invalidate() calls the method made before the native call
NativeCall(fn, w, checks, invalidates, res) ==
    [fn |-> fn, self |-> w, checks |-> checks, invalidates |-> invalidates, res |-> res]

\* impl From<idevice_t> for Device
DeviceFrom ==
    /\ wrap["device"] = "absent"
    /\ wrap' = [wrap EXCEPT !["device"] = "live"]
    /\ UNCHANGED <<nativeLog, nonWrapVars>>

\* Device::get_handle
DeviceGetHandle(res) ==
    /\ wrap["device"] = "live"
    /\ nativeLog' = nativeLog \cup {NativeCall("idevice_get_handle", "device", 0, 0, res)}
    /\ UNCHANGED <<wrap, nonWrapVars>>

\* Device::new_mobile_image_mounter
DeviceNewMobileImageMounter(res) ==
    /\ wrap["device"] = "live"
    /\ nativeLog' = nativeLog \cup {NativeCall("mobile_image_mounter_new", "device", 0, 0, res)}
    /\ UNCHANGED <<wrap, nonWrapVars>>

\* AfcClient::start_service(device, ..)
AfcStartService(res) ==
    /\ wrap["device"] = "live"
    /\ wrap["afc"] = "absent"
    /\ nativeLog' = nativeLog \cup {NativeCall("afc_client_start_service", "device", 0, 0, res)}
    /\ wrap' = [wrap EXCEPT !["afc"] = IF res = "Success" THEN "live" ELSE @]
    /\ UNCHANGED nonWrapVars

\* AfcClient::get_device_info
AfcGetDeviceInfo(res) ==
    /\ wrap["afc"] = "live"
    /\ nativeLog' = nativeLog \cup {NativeCall("afc_get_device_info", "afc", 0, 0, res)}
    /\ UNCHANGED <<wrap, nonWrapVars>>

\* impl Drop for Device
DeviceDrop ==
    /\ wrap["device"] = "live"
    /\ nativeLog' = nativeLog \cup {NativeCall("idevice_free", "device", 0, 0, "Success")}
    /\ wrap' = [wrap EXCEPT !["device"] = "dropped"]
    /\ UNCHANGED nonWrapVars

\* impl Drop for AfcClient
AfcDrop ==
    /\ wrap["afc"] = "live"
    /\ nativeLog' = nativeLog \cup {NativeCall("afc_client_free", "afc", 0, 0, "Success")}
    /\ wrap' = [wrap EXCEPT !["afc"] = "dropped"]
    /\ UNCHANGED nonWrapVars

NextWrap ==
    \/ DeviceFrom
    \/ \E res \in NativeResults : DeviceGetHandle(res)
    \/ \E res \in NativeResults : DeviceNewMobileImageMounter(res)
    \/ \E res \in NativeResults : AfcStartService(res)
    \/ \E res \in NativeResults : AfcGetDeviceInfo(res)
    \/ DeviceDrop
    \/ AfcDrop

SpecWrap == Init /\ [][NextWrap]_vars

(***************************************************************************)
(* CompanionProxy (src/services/companion_proxy.rs): `pointer` is the      *)
(* native client; proxy.log is the sequence of native calls made on it.    *)
(***************************************************************************)
MaxLog == 3

nonProxyVars == <<coreVars, relay, usbmux, netdev, sb, tool>>

\* the methods that take &self: send, receive and the two forwarding calls
BorrowFns == {"companion_proxy_send", "companion_proxy_receive",
              "companion_proxy_start_forwarding_service_port",
              "companion_proxy_stop_forwarding_service_port"}

\* the methods that take self
RegistryFns == {"companion_proxy_get_device_registry",
                "companion_proxy_get_value_from_registry"}

\* if result != Success { return Err(result) } Ok(..)
ResultOf(res) == IF res = "Success" THEN "Ok" ELSE "Err"

\* CompanionProxy::new and start_service
CompanionProxyNew(res) ==
    /\ proxy.state = "absent"
    /\ proxy' = [proxy EXCEPT !.state = IF res = "Success" THEN "live" ELSE @,
                              !.last = "companion_proxy_client_new",
                              !.ret = ResultOf(res)]
    /\ UNCHANGED nonProxyVars

\* a method on &self: one native call on the client, which stays with the caller
ProxyBorrowCall(fn, res) ==
    /\ proxy.state = "live"
    /\ Len(proxy.log) < MaxLog
    /\ proxy' = [proxy EXCEPT !.log = Append(@, fn), !.last = fn, !.ret = ResultOf(res)]
    /\ UNCHANGED nonProxyVars

\* a value that goes out of scope without its Drop being run
Forgotten(log) == log

\* impl Drop for CompanionProxy: what the end of the owner's scope adds
Dropped(log) == Append(log, "companion_proxy_client_free")

\* get_device_registry(self) and get_value_from_registry(self, ..): one native
\* call, then self goes out of scope on the Err return and on the Ok return
ProxyRegistryCall(fn, res) ==
    /\ proxy.state = "live"
    /\ proxy' = [state |-> "consumed", log |-> Dropped(Append(proxy.log, fn)),
                 last |-> fn, ret |-> ResultOf(res)]
    /\ UNCHANGED nonProxyVars

\* the owner lets the proxy go out of scope
CompanionProxyDrop ==
    /\ proxy.state = "live"
    /\ proxy' = [proxy EXCEPT !.state = "consumed", !.log = Dropped(@),
                              !.last = "drop", !.ret = "none"]
    /\ UNCHANGED nonProxyVars

NextProxy ==
    \/ \E res \in NativeResults : CompanionProxyNew(res)
    \/ \E fn \in BorrowFns : \E res \in NativeResults : ProxyBorrowCall(fn, res)
    \/ \E fn \in RegistryFns : \E res \in NativeResults : ProxyRegistryCall(fn, res)
    \/ CompanionProxyDrop

SpecProxy == Init /\ [][NextProxy]_vars

(***************************************************************************)
(* FileRelay::request_sources (src/services/file_relay.rs).  relay.args is *)
(* the timeout argument of each call made so far, relay.native the native  *)
(* requests issued, relay.rets what the calls returned.                    *)
(***************************************************************************)
MaxTimeout == 2

MaxRequests == 3

nonRelayVars == <<coreVars, proxy, usbmux, netdev, sb, tool>>

\* timeout: u32, of which only zero or not matters to the code
Timeouts == 0..MaxTimeout

\* what the native request evaluates to once converted into a FileRelayError
RelayResults == {"Success", "InvalidArg", "UnknownError"}

\* a request that is timed whatever the timeout
RequestAlwaysTimed(timeout) == <<"file_relay_request_sources_timeout", timeout>>

\* if timeout == 0 { file_relay_request_sources(..) } else
\* { file_relay_request_sources_timeout(.., timeout) }
RequestFor(timeout) ==
    IF timeout = 0 THEN <<"file_relay_request_sources">>
    ELSE <<"file_relay_request_sources_timeout", timeout>>

\* if result != FileRelayError::Success { return Err(result) } .. Ok(())
RelayReturn(res) == IF res # "Success" THEN <<"Err", res>> ELSE <<"Ok">>

RequestSources(timeout, res) ==
    /\ Len(relay.args) < MaxRequests
    /\ relay' = [args |-> Append(relay.args, timeout),
                 native |-> Append(relay.native, [request |-> RequestFor(timeout), res |-> res]),
                 rets |-> Append(relay.rets, RelayReturn(res))]
    /\ UNCHANGED nonRelayVars

NextRelay == \E timeout \in Timeouts : \E res \in RelayResults : RequestSources(timeout, res)

SpecRelay == Init /\ [][NextRelay]_vars

(***************************************************************************)
(* get_devices and get_device (src/idevice.rs).  A Device is named by the  *)
(* position of the list entry it was made from.                            *)
(***************************************************************************)
MaxList == 2

nonMuxVars == <<coreVars, proxy, relay, netdev, sb, tool>>

Udids == {"u1", "u2"}

\* one entry of the native device list: its udid and what
\* idevice_new_with_options returns for it
Entry == [udid : Udids, res : {0, -1}]

Lists == UNION {[1..n -> Entry] : n \in 0..MaxList}

\* what idevice_get_device_list_extended evaluates to as an IdeviceError
ListResults == {"Success", "NoDevice", "UnknownError"}

RECURSIVE Enumerate(_, _)
RECURSIVE EnumerateAbort(_, _)
RECURSIVE Search(_, _, _, _)
RECURSIVE SearchLast(_, _, _, _)
RECURSIVE SearchLeak(_, _, _, _)

\* a loop that gives up at the first entry that fails
EnumerateAbort(list, i) ==
    IF i > Len(list) \/ list[i].res # 0 THEN << >>
    ELSE <<i>> \o EnumerateAbort(list, i + 1)

\* for i in device_list_slice.iter_mut(), from entry i on: the entries a
\* Device is pushed for; if result != 0 { continue }
Enumerate(list, i) ==
    IF i > Len(list) THEN << >>
    ELSE IF list[i].res # 0 THEN Enumerate(list, i + 1)
    ELSE <<i>> \o Enumerate(list, i + 1)

\* get_devices: Err(result) before anything is made when the list call fails
Made(listRes, list) == IF listRes # "Success" THEN << >> ELSE Enumerate(list, 1)

\* a loop that keeps the last match
SearchLast(list, devs, k, udid) ==
    IF k > Len(devs) THEN [found |-> 0, frees |-> << >>]
    ELSE LET r == SearchLast(list, devs, k + 1, udid) IN
         IF list[devs[k]].udid = udid /\ r.found = 0
         THEN [found |-> devs[k], frees |-> r.frees]
         ELSE [found |-> r.found, frees |-> <<devs[k]>> \o r.frees]

\* a loop that forgets the devices it has not looked at
SearchLeak(list, devs, k, udid) ==
    IF k > Len(devs) THEN [found |-> 0, frees |-> << >>]
    ELSE IF list[devs[k]].udid = udid THEN [found |-> devs[k], frees |-> << >>]
    ELSE LET r == SearchLeak(list, devs, k + 1, udid) IN
         [found |-> r.found, frees |-> <<devs[k]>> \o r.frees]

\* for device in devices { if device.get_udid() == udid { return Ok(device) } },
\* from the k-th device on: a device that does not match is dropped at the end
\* of its iteration, the devices left in the iterator when the loop returns
\* are dropped with it
Search(list, devs, k, udid) ==
    IF k > Len(devs) THEN [found |-> 0, frees |-> << >>]
    ELSE IF list[devs[k]].udid = udid
         THEN [found |-> devs[k], frees |-> SubSeq(devs, k + 1, Len(devs))]
    ELSE LET r == Search(list, devs, k + 1, udid) IN
         [found |-> r.found, frees |-> <<devs[k]>> \o r.frees]

Range(q) == {q[i] : i \in 1..Len(q)}

\* get_devices()
GetDevices(listRes, list) ==
    /\ usbmux.owned = {}
    /\ usbmux' = [call |-> "get_devices", list |-> list, listRes |-> listRes, udid |-> "none",
                  made |-> Made(listRes, list),
                  owned |-> Range(Made(listRes, list)),
                  frees |-> << >>,
                  ret |-> IF listRes # "Success" THEN MuxErr(listRes)
                          ELSE MuxOk(0, Made(listRes, list))]
    /\ UNCHANGED nonMuxVars

\* get_device(udid)
GetDevice(udid, listRes, list) ==
    LET r == Search(list, Made(listRes, list), 1, udid) IN
    /\ usbmux.owned = {}
    /\ usbmux' = [call |-> "get_device", list |-> list, listRes |-> listRes, udid |-> udid,
                  made |-> Made(listRes, list),
                  owned |-> {r.found} \ {0},
                  frees |-> r.frees,
                  ret |-> IF listRes # "Success" THEN MuxErr(listRes)
                          ELSE IF r.found = 0 THEN MuxErr("NoDevice")
                          ELSE MuxOk(r.found, << >>)]
    /\ UNCHANGED nonMuxVars

\* impl Drop for Device, when the caller lets go of a Device it was given
MuxDeviceDrop(d) ==
    /\ d \in usbmux.owned
    /\ usbmux' = [usbmux EXCEPT !.owned = @ \ {d}, !.frees = Append(@, d)]
    /\ UNCHANGED nonMuxVars

NextMux ==
    \/ \E listRes \in ListResults : \E list \in Lists : GetDevices(listRes, list)
    \/ \E udid \in Udids : \E listRes \in ListResults : \E list \in Lists :
        GetDevice(udid, listRes, list)
    \/ \E d \in 1..MaxList : MuxDeviceDrop(d)

SpecMux == Init /\ [][NextMux]_vars

(***************************************************************************)
(* Device::new and the getters of Device (src/idevice.rs).  Strings and    *)
(* connection data are sequences of bytes; a pointer is << >> when null    *)
(* and <<bytes>> when it points to bytes.  q[a..b] of the source is        *)
(* Slice(q, a, b).                                                         *)
(***************************************************************************)
nonNetVars == <<coreVars, proxy, relay, usbmux, sb, tool>>

Octets == {0, 1, 255}

\* udid: String, as bytes; a String may hold NUL bytes
UdidArgs == {<< >>, <<97>>, <<97, 98>>, <<0>>, <<97, 0, 98>>}

V4Addrs == [1..4 -> Octets]

\* IPv6 addresses: the unspecified one, one with 16 different bytes, and those
\* with a single byte set
V6Addrs ==
    {[i \in 1..16 |-> 0], [i \in 1..16 |-> i]}
        \cup {[i \in 1..16 |-> IF i = j THEN b ELSE 0] : j \in 1..16, b \in Octets \ {0}}

\* ip_addr: Option<IpAddr>
IpArgs ==
    {<< >>} \cup {<<[family |-> "V4", octets |-> a]>> : a \in V4Addrs}
            \cup {<<[family |-> "V6", octets |-> a]>> : a \in V6Addrs}

MuxIds == {0, 7}

Zeros(n) == [i \in 1..n |-> 0]

Slice(q, a, b) == SubSeq(q, a + 1, b)

\* an encoding that puts the octets one byte early
EncodeV4Early(o) == <<16, 2, 0>> \o o \o Zeros(9)

\* IpAddr::V4: 16 zeroed bytes, [0..4] = 10 02 00 00, [4..8] = the octets
EncodeV4(o) == <<16, 2, 0, 0>> \o o \o Zeros(8)

\* IpAddr::V6: 29 zeroed bytes, [0..7] = 1C 1E 00 00 00 00 00, byte 7 left as
\* it is, [8..24] = the octets
EncodeV6(o) == <<28, 30, 0, 0, 0, 0, 0>> \o <<0>> \o o \o Zeros(5)

Encode(ip) == IF ip.family = "V4" THEN EncodeV4(ip.octets) ELSE EncodeV6(ip.octets)

\* Ipv4Addr::to_string and Ipv6Addr::to_string, as the numbers the text shows:
\* four decimal parts, eight 16-bit groups
Text4(o) == [form |-> "dotted", parts |-> o]

Text6(o) == [form |-> "groups", parts |-> [i \in 1..8 |-> o[2 * i - 1] * 256 + o[2 * i]]]

\* what Device::new does with its arguments: Err(()), a panic of the unwrap()
\* on CStr::from_bytes_with_nul when the udid holds a NUL, or the struct
NewOutcome(udid, network, ip) ==
    IF network /\ ip = << >> THEN "Err"
    ELSE IF \E i \in 1..Len(udid) : udid[i] = 0 THEN "panic"
    ELSE "Ok"

\* the idevice_private that Device::new writes
NewStruct(udid, network, ip, mux_id) ==
    [udid |-> udid \o <<0>>,
     mux_id |-> mux_id,
     conn_type |-> IF network THEN 2 ELSE 1,
     conn_data |-> IF network THEN <<Encode(ip[1])>> ELSE << >>,
     version |-> 0,
     device_class |-> 0]

DeviceNew(udid, network, ip, mux_id) ==
    /\ netdev.out = "none"
    /\ netdev' = [out |-> NewOutcome(udid, network, ip),
                  args |-> [udid |-> udid, network |-> network, ip |-> ip, mux_id |-> mux_id],
                  dev |-> IF NewOutcome(udid, network, ip) = "Ok"
                          THEN NewStruct(udid, network, ip, mux_id) ELSE NoDev,
                  read |-> NoRead]
    /\ UNCHANGED nonNetVars

\* CStr::from_ptr(p): the bytes before the first NUL
CStrFromPtr(bytes) ==
    LET n == CHOOSE i \in 1..Len(bytes) :
                bytes[i] = 0 /\ \A j \in 1..(i - 1) : bytes[j] # 0
    IN SubSeq(bytes, 1, n - 1)

\* Device::get_udid
UdidOf(dev) == CStrFromPtr(dev.udid)

\* Device::get_network
NetworkOf(dev) == dev.conn_type # 1

\* Device::get_ip_address on a device whose conn_data is not null
IpAddressOf(dev) ==
    LET data == Slice(dev.conn_data[1], 0, dev.conn_data[1][1]) IN
    IF data[2] = 2 THEN <<Text4(Slice(data, 4, 8))>>
    ELSE IF data[2] = 30 THEN <<Text6(Slice(data, 7, 23))>>
    ELSE << >>

\* Device::get_conn_data on a device whose conn_data is not null
ConnDataOf(dev) == Slice(dev.conn_data[1], 0, dev.conn_data[1][1])

Read(fn, val) == [fn |-> fn, null |-> FALSE, crashed |-> FALSE, val |-> val]

\* a read through a null pointer: the process is killed, or goes on with
\* whatever the read produced
NullReads(fn) ==
    {[fn |-> fn, null |-> TRUE, crashed |-> TRUE, val |-> << >>],
     [fn |-> fn, null |-> TRUE, crashed |-> FALSE, val |-> << >>],
     [fn |-> fn, null |-> TRUE, crashed |-> FALSE, val |-> <<255>>]}

DeviceGetUdid ==
    /\ netdev.out = "Ok"
    /\ netdev' = [netdev EXCEPT !.read = Read("get_udid", UdidOf(netdev.dev))]
    /\ UNCHANGED nonNetVars

DeviceGetNetwork ==
    /\ netdev.out = "Ok"
    /\ netdev' = [netdev EXCEPT !.read = Read("get_network", NetworkOf(netdev.dev))]
    /\ UNCHANGED nonNetVars

\* if !self.get_network() { return None } comes before conn_data is read
DeviceGetIpAddress ==
    /\ netdev.out = "Ok"
    /\ \E r \in IF ~NetworkOf(netdev.dev) THEN {Read("get_ip_address", << >>)}
                ELSE IF netdev.dev.conn_data = << >> THEN NullReads("get_ip_address")
                ELSE {Read("get_ip_address", IpAddressOf(netdev.dev))} :
        netdev' = [netdev EXCEPT !.read = r]
    /\ UNCHANGED nonNetVars

\* get_conn_data reads *(data_pointer) whatever the device is
DeviceGetConnData ==
    /\ netdev.out = "Ok"
    /\ \E r \in IF netdev.dev.conn_data = << >> THEN NullReads("get_conn_data")
                ELSE {Read("get_conn_data", ConnDataOf(netdev.dev))} :
        netdev' = [netdev EXCEPT !.read = r]
    /\ UNCHANGED nonNetVars

NextNet ==
    \/ \E udid \in UdidArgs : \E network \in BOOLEAN : \E ip \in IpArgs : \E mux_id \in MuxIds :
        DeviceNew(udid, network, ip, mux_id)
    \/ DeviceGetUdid
    \/ DeviceGetNetwork
    \/ DeviceGetIpAddress
    \/ DeviceGetConnData

SpecNet == Init /\ [][NextNet]_vars

(***************************************************************************)
(* SpringboardServicesClient::get_interface_orientation and the two        *)
(* conversions of Orientation (src/services/springboard_services.rs).      *)
(* sb is the sequence of the calls made so far, each with its argument and *)
(* what it gave; a panic ends the process, so nothing follows it.          *)
(***************************************************************************)
\* native orientation values tried: 0..4 are the defined ones
MaxNative == 5

MaxCalls == 3

nonSbVars == <<coreVars, proxy, relay, usbmux, netdev, tool>>

Natives == 0..MaxNative

Orientations == {"Unknown", "Portrait", "PortraitUpsideDown", "LandscapeRight", "LandscapeLeft"}

\* SbservicesError after `.into()`
SbResults == {"Success", "UnknownError"}

SbOk(v) == [kind |-> "Ok", val |-> v]

SbErr(e) == [kind |-> "Err", val |-> e]

SbPanic == [kind |-> "panic", val |-> "Unknown orientation"]

\* impl From<Orientation> for c_uint
CUintFrom(orientation) ==
    CASE orientation = "Unknown" -> 0
      [] orientation = "Portrait" -> 1
      [] orientation = "PortraitUpsideDown" -> 2
      [] orientation = "LandscapeRight" -> 3
      [] orientation = "LandscapeLeft" -> 4

\* a conversion that maps what it does not know to Unknown
OrientationFromLenient(orientation) ==
    CASE orientation = 1 -> SbOk("Portrait")
      [] orientation = 2 -> SbOk("PortraitUpsideDown")
      [] orientation = 3 -> SbOk("LandscapeRight")
      [] orientation = 4 -> SbOk("LandscapeLeft")
      [] OTHER -> SbOk("Unknown")

\* impl From<c_uint> for Orientation
OrientationFrom(orientation) ==
    CASE orientation = 0 -> SbOk("Unknown")
      [] orientation = 1 -> SbOk("Portrait")
      [] orientation = 2 -> SbOk("PortraitUpsideDown")
      [] orientation = 3 -> SbOk("LandscapeRight")
      [] orientation = 4 -> SbOk("LandscapeLeft")
      [] OTHER -> SbPanic

\* the process has not panicked and may make one more call
SbRunning ==
    /\ Len(sb) < MaxCalls
    /\ \A k \in 1..Len(sb) : sb[k].ret.kind # "panic"

\* get_interface_orientation(&self): the native call gives `result` and
\* leaves `orientation` in the out parameter
GetInterfaceOrientation(result, orientation) ==
    /\ SbRunning
    /\ sb' = Append(sb, [fn |-> "get_interface_orientation", result |-> result,
                         arg |-> orientation,
                         ret |-> IF result # "Success" THEN SbErr(result)
                                 ELSE OrientationFrom(orientation)])
    /\ UNCHANGED nonSbVars

\* c_uint::from(o) on an Orientation
ConvertOrientation(o) ==
    /\ SbRunning
    /\ sb' = Append(sb, [fn |-> "c_uint::from", result |-> "none", arg |-> o,
                         ret |-> SbOk(CUintFrom(o))])
    /\ UNCHANGED nonSbVars

\* Orientation::from(v) on a c_uint
ConvertCUint(v) ==
    /\ SbRunning
    /\ sb' = Append(sb, [fn |-> "Orientation::from", result |-> "none", arg |-> v,
                         ret |-> OrientationFrom(v)])
    /\ UNCHANGED nonSbVars

NextSb ==
    \/ \E result \in SbResults : \E orientation \in Natives :
        GetInterfaceOrientation(result, orientation)
    \/ \E o \in Orientations : ConvertOrientation(o)
    \/ \E v \in Natives : ConvertCUint(v)

SpecSb == Init /\ [][NextSb]_vars

(***************************************************************************)
(* tools/src/idevicedebug.rs, main: the argument loop, then the calls on   *)
(* the device one after the other.  tool.args is the argument vector after *)
(* args.remove(0), tool.i the loop index (from 0, as in the source),       *)
(* tool.reads the indices at which args was read, tool.steps the calls     *)
(* made on the device and its services with the result of each.            *)
(***************************************************************************)
MaxArgs == 3

nonToolVars == <<coreVars, proxy, relay, usbmux, netdev, sb>>

\* the arguments tried that start with "-": the six flags the match names and one it does not
Dashed == {"-u", "--udid", "-h", "--help", "-v", "--version", "-x"}

\* an application name, and the empty string
Plain == {"app", ""}

ArgLists == UNION {[1..n -> Dashed \cup Plain] : n \in 0..MaxArgs}

\* args[i] of the Vec: indices start at 0, and an index that is not below
\* args.len() panics
InBounds(args, i) == i < Len(args)

At(args, i) == args[i + 1]

\* args[i].starts_with("-")
StartsWithDash(a) == a \in Dashed

\* the calls of main after the argument loop, in program order; each is a
\* match whose Err arm prints and returns, but for the unwrap()
Steps == <<"get_device", "new_instproxy_client", "lookup", "dict_get_item(&app).unwrap",
           "dict_get_item(Container)", "get_string_val", "get_path_for_bundle_identifier",
           "new_debug_server", "QSetMaxPacketSize", "QSetWorkingDir", "set_argv",
           "qLaunchSuccess", "D">>

StepResults == {"Ok", "Err"}

\* a main that goes on whatever a call returned
OutcomeIgnoringErr(name, res) ==
    IF name = Steps[Len(Steps)] THEN "done" ELSE "none"

\* how main goes on after the call `name` gave res: "none" is the next
\* statement, anything else ends the process
Outcome(name, res) ==
    IF res = "Err"
    THEN IF name = "dict_get_item(&app).unwrap" THEN "panic" ELSE "error"
    ELSE IF name = Steps[Len(Steps)] THEN "done" ELSE "none"

\* the process is started with these arguments
ToolStart(args) ==
    /\ tool.pc = "none"
    /\ tool' = [tool EXCEPT !.pc = "args", !.args = args]
    /\ UNCHANGED nonToolVars

\* `return` from main, or a panic
Exit(t, out) == [t EXCEPT !.pc = "exit", !.out = out]

\* one iteration of `while i < args.len()`
ParseArg ==
    /\ tool.pc = "args"
    /\ InBounds(tool.args, tool.i)
    /\ LET a == At(tool.args, tool.i)
           t == [tool EXCEPT !.reads = Append(@, tool.i)]
       IN  tool' =
            CASE a \in {"-u", "--udid"} ->
                    IF InBounds(tool.args, tool.i + 1)
                    THEN [t EXCEPT !.reads = Append(@, tool.i + 1),
                                   !.udid = At(tool.args, tool.i + 1),
                                   !.i = tool.i + 2]
                    ELSE Exit([t EXCEPT !.reads = Append(@, tool.i + 1)], "panic")
              [] a \in {"-h", "--help"} -> Exit(t, "help")
              [] a \in {"-v", "--version"} -> Exit(t, "version")
              [] OTHER ->
                    IF StartsWithDash(a)
                    THEN Exit(t, "unknown_flag")
                    ELSE [t EXCEPT !.app = a, !.i = tool.i + 1]
    /\ UNCHANGED nonToolVars

\* the loop is left: `if udid == ""`
CheckUdid ==
    /\ tool.pc = "args"
    /\ ~InBounds(tool.args, tool.i)
    /\ tool' = IF tool.udid = "" THEN Exit(tool, "no_udid") ELSE [tool EXCEPT !.pc = "main"]
    /\ UNCHANGED nonToolVars

\* the next call of main is made and gives res
RunStep(res) ==
    /\ tool.pc = "main"
    /\ LET name == Steps[Len(tool.steps) + 1]
           t == [tool EXCEPT !.steps = Append(@, [name |-> name, res |-> res])]
       IN  tool' = IF Outcome(name, res) = "none" THEN t ELSE Exit(t, Outcome(name, res))
    /\ UNCHANGED nonToolVars

NextTool ==
    \/ \E args \in ArgLists : ToolStart(args)
    \/ ParseArg
    \/ CheckUdid
    \/ \E res \in StepResults : RunStep(res)

SpecTool == Init /\ [][NextTool]_vars

(***************************************************************************)
(* Claims                                                                  *)
(***************************************************************************)
\* thread t has a check() on node n that has just returned
CheckReturned(t, n) == pc[t] = "done" /\ call[t] = [op |-> "check", node |-> n]

ChainAllSome(n) == \A m \in ChainToRoot(n) : IsSome(slot[OwnCell(m)])

\* C1: with calls made one after the other, a check() on a node returns Ok
\* if and only if the own slot of every node from it up to the root is Some.
C1_LeafOkIffChainSome ==
    \A t \in Threads : \A n \in Nodes :
        CheckReturned(t, n) => (ret[t].kind = "Ok" <=> ChainAllSome(n))

\* C2: after invalidate() has returned on the root, every later check() on
\* the root, on the client and on the service descriptor returns Err.
C2_RootInvalidatedAllErr ==
    \A t \in Threads : \A n \in {"idevice", "client", "service"} :
        (CheckReturned(t, n) /\ "idevice" \in invDone) => ret[t] = RetErr

\* C3: a check() on a node with a parent returns Ok only while the slot of
\* the parent resource is still Some: at the step that reads the own slot and
\* returns the snapshot, the parent's slot is not None.
C3_NoOkAfterParentNone ==
    [][\A t \in Threads :
        (pc[t] = "read_own" /\ pc'[t] = "done" /\ ret'[t].kind = "Ok"
            /\ HasParent(call[t].node))
        => IsSome(slot[OwnCell(DependsOn(call[t].node))])]_vars

\* C4: a check() on a node that was entered after an invalidate() of that
\* node had returned returns Err, whatever the other threads do.
C4_InvalidatedStaysErr ==
    \A t \in Threads :
        (pc[t] = "done" /\ call[t].op = "check" /\ invBefore[t]) => ret[t] = RetErr

C4_Witness ==
    \E t \in Threads :
        /\ pc[t] = "done" /\ call[t].op = "check" /\ invBefore[t]
        /\ ret[t] = RetErr
        /\ \E u \in Threads : u # t /\ InCall(u)

\* C5: after invalidate() of the service descriptor's node, check() of the
\* feature client built on that descriptor returns Err.
C5_MimSeesServiceInvalidated ==
    \A t \in Threads :
        (CheckReturned(t, "mim") /\ "service" \in invDone) => ret[t] = RetErr

\* C6: after invalidate() on the client only, with calls made one after the
\* other, check() on the device returns Ok and check() on the client and on
\* the service descriptor return Err.
C6_MiddleInvalidated ==
    \A t \in Threads : \A n \in {"idevice", "client", "service"} :
        (CheckReturned(t, n) /\ invDone = {"client"})
        => (ret[t].kind = "Ok" <=> n = "idevice")

C6_Witness ==
    \E t \in Threads :
        /\ CheckReturned(t, "service") /\ invDone = {"client"}
        /\ IsSome(slot["service"]) /\ IsSome(slot["idevice"])
        /\ ret[t] = RetErr

\* C7: every call a wrapper method makes into the native library with its
\* handle comes after a check() that returned Ok in the same method.
C7_CheckBeforeNativeCall ==
    \A e \in nativeLog : e.fn \notin FreeFns => e.checks >= 1

\* C8: every native free made by a wrapper's teardown comes after exactly one
\* invalidate() made by that teardown.
C8_InvalidateOnceBeforeFree ==
    \A e \in nativeLog : e.fn \in FreeFns => e.invalidates = 1

\* C9: the slot of a cell only ever changes from Some to None: a cell stays
\* allocated, a None slot stays None, and a Some slot keeps its value until
\* it becomes None.
C9_SlotSomeToNoneOnly ==
    [][/\ DOMAIN slot \subseteq DOMAIN slot'
       /\ \A c \in DOMAIN slot :
            slot'[c] # slot[c] => (IsSome(slot[c]) /\ slot'[c] = None)]_vars

C9_Witness ==
    \E c \in DOMAIN slot : \E t \in Threads :
        /\ slot[c] = None
        /\ pc[t] = "inv_take" /\ call[t].node = c

\* C10: check() on a node with a parent locks and reads the parent's cell
\* first; when the parent's slot is None it returns Err at once, holding no
\* lock and without locking or reading the own cell; the own cell is locked
\* and read only after the parent's slot was read as Some.
C10_ParentFirst ==
    [][\A t \in Threads :
        /\ (pc[t] = "idle" /\ pc'[t] # "idle" /\ call'[t].op = "check"
                /\ HasParent(call'[t].node))
            => (pc'[t] = "read_parent" /\ held'[t] = {ParentCell(call'[t].node)})
        /\ (pc[t] = "read_parent" /\ pc'[t] # "read_parent")
            => /\ held'[t] = {}
               /\ IF slot[ParentCell(call[t].node)] = None
                    THEN pc'[t] = "done" /\ ret'[t] = RetErr
                    ELSE pc'[t] = "lock_own"
        /\ (pc'[t] = "lock_own" /\ pc[t] # "lock_own")
            => (pc[t] = "read_parent" /\ IsSome(slot[ParentCell(call[t].node)]))
        /\ (pc'[t] = "read_own" /\ pc[t] # "read_own" /\ HasParent(call'[t].node))
            => pc[t] = "lock_own"]_vars

C10_Witness ==
    \E t \in Threads : \E n \in Nodes :
        /\ CheckReturned(t, n) /\ HasParent(n)
        /\ slot[ParentCell(n)] = None
        /\ IsSome(slot[OwnCell(n)])
        /\ ret[t] = RetErr

NoInvalidate ==
    invDone = {} /\ \A u \in Threads : call[u].op # "invalidate"

\* C11: with any number of threads in check() on the nodes of a chain whose
\* slots are all Some, and no invalidate() made, every check() that has
\* returned has returned Ok, and the snapshot it handed out is the value
\* stored in the node's slot.
C11_ConcurrentChecksOkWhole ==
    \A t \in Threads : \A n \in Nodes :
        (CheckReturned(t, n) /\ NoInvalidate /\ ChainAllSome(n))
        => /\ ret[t].kind = "Ok"
           /\ \A w \in Deref(ret[t]) : w = slot[OwnCell(n)]

\* Scheduling: a thread that is inside a call and can run keeps running; a
\* thread that waits for a Mutex gets it if the Mutex is free again and again.
\* No fairness is put on the callers' decisions to make calls.
Fairness ==
    \A t \in Threads :
        /\ WF_vars(CheckReadParent(t))
        /\ SF_vars(CheckLockOwn(t))
        /\ WF_vars(CheckReadOwn(t))
        /\ WF_vars(InvalidateTake(t))

\* the device and its lockdownd client, the shortest chain on which check()
\* takes two locks
StepPair(t) ==
    \/ \E v \in Vals : IdeviceNew(t, v)
    \/ \E v \in Vals : ClientNew(t, v)
    \/ \E n \in Nodes : CheckEnter(t, n)
    \/ CheckReadParent(t)
    \/ CheckLockOwn(t)
    \/ CheckReadOwn(t)
    \/ \E n \in Nodes : InvalidateEnter(t, n)
    \/ InvalidateTake(t)
    \/ Return(t)

NextPair == \E t \in Threads : StepPair(t)

SpecFair == Init /\ [][NextPair]_vars /\ Fairness

C13_InvalidateFrame ==
    [][\A t \in Threads :
        (call'[t].op = "invalidate" /\ pc'[t] # pc[t])
        => /\ held'[t] \subseteq {OwnCell(call'[t].node)}
           /\ \A c \in DOMAIN slot :
                c # OwnCell(call'[t].node) => slot'[c] = slot[c]]_vars

C13_Witness ==
    \E t \in Threads :
        /\ \A n \in Nodes : Built(n)
        /\ pc[t] = "done" /\ call[t] = [op |-> "invalidate", node |-> "client"]
        /\ slot["client"] = None
        /\ IsSome(slot["idevice"]) /\ IsSome(slot["service"]) /\ IsSome(slot["mim"])

\* C14: invalidate() is idempotent: an invalidate() of a node that was
\* invalidated before returns as the first did and leaves every slot as the
\* first left it, so that a later check() finds what it would have found
\* after one invalidate().
C14_InvalidateIdempotent ==
    [][\A t \in Threads :
        (pc[t] = "inv_take" /\ pc'[t] = "done" /\ invBefore[t])
        => /\ slot' = slot
           /\ slot'[OwnCell(call[t].node)] = None
           /\ ret'[t] = RetUnit]_vars

C14_Witness ==
    \E t \in Threads :
        /\ pc[t] = "done" /\ call[t].op = "invalidate" /\ invBefore[t]
        /\ slot[OwnCell(call[t].node)] = None
        /\ ret[t] = RetUnit

\* no step of a check() call changes a slot, whether it ends in Ok or in Err
CheckChangesNoSlot ==
    [][\A t \in Threads :
        (pc'[t] # pc[t] /\ (call[t].op = "check" \/ call'[t].op = "check"))
        => slot' = slot]_vars

\* C15: check() changes no slot (CheckChangesNoSlot), so that with no
\* invalidate() made, two check() calls on the same node have both returned
\* Ok, with the same snapshot.
C15_CheckFrame ==
    \A t, u \in Threads : \A n \in Nodes :
        (CheckReturned(t, n) /\ CheckReturned(u, n) /\ NoInvalidate)
        => /\ ret[t].kind = "Ok" /\ ret[u].kind = "Ok"
           /\ \A w \in Deref(ret[t]) : \A x \in Deref(ret[u]) : w = x

C17_ReclaimedOnlyWhenNone ==
    \A c \in DOMAIN slot : Reclaimed(c) => slot[c] = None

\* C18: the cell of a parent stays allocated while a lock struct holds it:
\* after the parent's lock struct has gone out of scope, invalidated or not,
\* a descendant built with the cell still holds it, and a check() of the
\* descendant locks and reads no reclaimed cell.
C18_ParentCellOutlivesParent ==
    /\ \A n \in Nodes : Alive(n) => \A c \in {OwnCell(n), FirstCell(n)} : ~Reclaimed(c)
    /\ \A t \in Threads :
        call[t].op = "check"
        => /\ Alive(call[t].node)
           /\ \A c \in held[t] : ~Reclaimed(c)

C18_Witness ==
    \E t \in Threads :
        /\ CheckReturned(t, "client") /\ ret[t].kind = "Ok"
        /\ "idevice" \in dropped /\ "idevice" \notin invDone

\* C19: the snapshot of a check() that returned Ok is a copy of its own: what
\* the caller finds in it, once check() has returned and whatever is
\* invalidated later, is the value the slot held (still in the slot while it
\* is Some; for the service descriptor, kept as the native content when the
\* slot has become None).
C19_SnapshotStaysValid ==
    \A t \in Threads : \A n \in Nodes :
        (CheckReturned(t, n) /\ ret[t].kind = "Ok")
        => \A w \in Deref(ret[t]) :
            IF IsSome(slot[OwnCell(n)]) THEN w = slot[OwnCell(n)]
            ELSE n = "service" => w = native

\* C20: a node is live from its construction: while neither the node nor
\* its parent has been invalidated, a check() on the node built by
\* new(v, parent) returns Ok with a snapshot equal to v.
C20_LiveFromConstruction ==
    \A t \in Threads : \A n \in Nodes :
        (/\ CheckReturned(t, n)
         /\ IsSome(slot[OwnCell(n)])
         /\ HasParent(n) => IsSome(slot[OwnCell(DependsOn(n))]))
        => /\ ret[t].kind = "Ok"
           /\ \A w \in Deref(ret[t]) : w = slot[OwnCell(n)]

\* how many times the client was freed
ProxyFrees == Cardinality({i \in 1..Len(proxy.log) : proxy.log[i] = "companion_proxy_client_free"})

\* C21: get_device_registry and get_value_from_registry consume the proxy:
\* when one of them has returned, Ok or Err, the client has been freed exactly
\* once, right after the native registry call, and no native call on the
\* client comes after the free.
C21_RegistryCallsConsume ==
    /\ proxy.last \in RegistryFns
        => /\ proxy.state = "consumed"
           /\ ProxyFrees = 1
           /\ Len(proxy.log) >= 2
           /\ proxy.log[Len(proxy.log) - 1] = proxy.last
    /\ ProxyFrees <= 1
    /\ \A i \in 1..Len(proxy.log) :
        proxy.log[i] = "companion_proxy_client_free" => i = Len(proxy.log)

C21_Witness ==
    /\ proxy.last = "companion_proxy_get_device_registry"
    /\ proxy.ret = "Err"
    /\ Len(proxy.log) = MaxLog + 2

\* C22: each request_sources call issues exactly one native request, the
\* untimed one when timeout is 0 and the timed one, with the timeout given,
\* when it is greater; it returns Err with the native error exactly when
\* that request did not report Success, and Ok otherwise.
C22_OneRequestPerCall ==
    /\ Len(relay.native) = Len(relay.args)
    /\ Len(relay.rets) = Len(relay.args)
    /\ \A i \in 1..Len(relay.args) :
        /\ relay.args[i] = 0 <=> relay.native[i].request = <<"file_relay_request_sources">>
        /\ relay.args[i] > 0 <=>
            relay.native[i].request = <<"file_relay_request_sources_timeout", relay.args[i]>>
        /\ relay.native[i].res # "Success" <=> relay.rets[i] = <<"Err", relay.native[i].res>>
        /\ relay.native[i].res = "Success" <=> relay.rets[i] = <<"Ok">>

C22_Witness ==
    /\ Len(relay.args) = 2
    /\ relay.args[1] = 0 /\ relay.rets[1] = <<"Err", "InvalidArg">>
    /\ relay.args[2] = MaxTimeout /\ relay.rets[2] = <<"Ok">>

\* the devices get_devices has yielded whose udid is the one asked for
Matching == {d \in Range(usbmux.made) : usbmux.list[d].udid = usbmux.udid}

\* C23: get_device(udid) returns the error of get_devices unchanged when
\* get_devices fails; otherwise Ok with the first device, in list order, whose
\* udid is the one asked for, when there is one, and Err(NoDevice) when there
\* is none.
C23_GetDeviceFirstMatch ==
    usbmux.call = "get_device"
    => IF usbmux.listRes # "Success" THEN usbmux.ret = MuxErr(usbmux.listRes)
       ELSE IF Matching = {} THEN usbmux.ret = MuxErr("NoDevice")
       ELSE /\ usbmux.ret.kind = "Ok"
            /\ usbmux.ret.dev \in Matching
            /\ \A d \in Matching : usbmux.ret.dev <= d

C23_Witness ==
    /\ usbmux.call = "get_device"
    /\ Len(usbmux.list) = 2
    /\ usbmux.list[1].udid = usbmux.list[2].udid
    /\ usbmux.made = <<1, 2>>
    /\ usbmux.ret = MuxOk(1, << >>)

\* how many times idevice_free was called on device d
FreesOf(d) == Cardinality({i \in 1..Len(usbmux.frees) : usbmux.frees[i] = d})

\* C29: every Device that get_devices has made is freed exactly once, when it
\* is dropped, and nothing else is freed; when get_device has returned, every
\* device of the list but the returned one has been freed, and the returned
\* one is freed by its owner only.
C29_EachDeviceFreedOnce ==
    /\ Range(usbmux.frees) \subseteq Range(usbmux.made)
    /\ \A d \in Range(usbmux.made) : FreesOf(d) = IF d \in usbmux.owned THEN 0 ELSE 1
    /\ usbmux.call = "get_device"
        => /\ usbmux.owned \subseteq {usbmux.ret.dev}
           /\ usbmux.ret.kind = "Ok"
                => \/ usbmux.ret.dev \in usbmux.owned
                   \/ usbmux.frees[Len(usbmux.frees)] = usbmux.ret.dev

C29_Witness ==
    /\ usbmux.call = "get_device"
    /\ usbmux.made = <<1, 2>>
    /\ usbmux.ret = MuxOk(1, << >>)
    /\ usbmux.owned = {1}
    /\ usbmux.frees = <<2>>

\* C30: when the list call succeeds get_devices returns one Device for each
\* entry for which idevice_new_with_options returns 0, in list order, and
\* skips the others; when the list call fails it returns that error and makes
\* no Device.
C30_OneDevicePerGoodEntry ==
    usbmux.call = "get_devices"
    => IF usbmux.listRes # "Success"
       THEN usbmux.ret = MuxErr(usbmux.listRes) /\ usbmux.made = << >>
       ELSE /\ usbmux.ret.kind = "Ok"
            /\ usbmux.ret.devs = usbmux.made
            /\ Range(usbmux.made) = {i \in 1..Len(usbmux.list) : usbmux.list[i].res = 0}
            /\ \A j, k \in 1..Len(usbmux.made) : j < k => usbmux.made[j] < usbmux.made[k]

C30_Witness ==
    /\ usbmux.call = "get_devices"
    /\ Len(usbmux.list) = 2
    /\ usbmux.list[1].res # 0
    /\ usbmux.ret = MuxOk(0, <<2>>)

\* C24: a thread holds at most one cell lock at any time: in check() the
\* guard of the parent's cell is gone before the own cell is asked for, and
\* invalidate() holds the own cell's guard only, so that no thread waits for
\* a lock while it holds one.
C24_OneLockAtATime ==
    \A t \in Threads :
        /\ Cardinality(held[t]) <= 1
        /\ pc[t] = "lock_own" => held[t] = {}
        /\ pc[t] = "read_parent" => held[t] = {ParentCell(call[t].node)}
        /\ pc[t] = "read_own" => held[t] = {OwnCell(call[t].node)}
        /\ pc[t] = "inv_take" => held[t] = {OwnCell(call[t].node)}
        /\ pc[t] \in {"idle", "done"} => held[t] = {}

C24_Witness ==
    \E t, u \in Threads :
        /\ t # u
        /\ pc[t] = "lock_own" /\ held[t] = {}
        /\ pc[u] = "inv_take" /\ call[u].node = DependsOn(call[t].node)

\* a Device::new call with network = true and an address of the family has
\* returned a device
NetDeviceOf(family) ==
    /\ netdev.out = "Ok"
    /\ netdev.args.network
    /\ netdev.args.ip # << >>
    /\ netdev.args.ip[1].family = family

\* C25: a device built by Device::new with network = true and an IPv6
\* address a reports that address: get_ip_address() returns Some of the
\* textual form of a.
C25_Ipv6RoundTrip ==
    (NetDeviceOf("V6") /\ netdev.read.fn = "get_ip_address")
    => netdev.read.val = <<Text6(netdev.args.ip[1].octets)>>

\* C26: a device built by Device::new with network = true and an IPv4
\* address a reports that address: get_ip_address() returns Some of the
\* dotted textual form of a.
C26_Ipv4RoundTrip ==
    (NetDeviceOf("V4") /\ netdev.read.fn = "get_ip_address")
    => netdev.read = Read("get_ip_address", <<Text4(netdev.args.ip[1].octets)>>)

C26_Witness ==
    /\ NetDeviceOf("V4")
    /\ netdev.args.ip[1].octets = <<255, 0, 1, 255>>
    /\ netdev.read.fn = "get_ip_address"
    /\ netdev.read.val = <<Text4(<<255, 0, 1, 255>>)>>

\* C27: Device::new returns Err(()) exactly when network is true and ip_addr
\* is None; in every other case it returns a device whose get_network() is
\* the network argument (conn_type 2 when network, 1 otherwise) and whose
\* get_udid() is the udid argument.
C27_NewErrExactly ==
    netdev.out # "none"
    => /\ netdev.out = "Err" <=> (netdev.args.network /\ netdev.args.ip = << >>)
       /\ netdev.out # "Err"
            => /\ netdev.out = "Ok"
               /\ NetworkOf(netdev.dev) = netdev.args.network
               /\ netdev.dev.conn_type = IF netdev.args.network THEN 2 ELSE 1
               /\ UdidOf(netdev.dev) = netdev.args.udid

\* C28: on every device made by Device::new, get_conn_data returns a vector
\* whose length is the first byte of the connection data and reads through
\* no null pointer; get_ip_address returns None for a device that is not a
\* network device, without reading the connection data.
C28_ConnDataNeverNull ==
    netdev.out = "Ok"
    => /\ netdev.read.fn = "get_conn_data"
            => /\ ~netdev.read.null
               /\ ~netdev.read.crashed
               /\ Len(netdev.read.val) = netdev.dev.conn_data[1][1]
       /\ (netdev.read.fn = "get_ip_address" /\ ~netdev.args.network)
            => netdev.read = Read("get_ip_address", << >>)

\* sb[k] turned a native value into an Orientation
GaveOrientation(k) ==
    /\ sb[k].fn \in {"Orientation::from", "get_interface_orientation"}
    /\ sb[k].result \in {"none", "Success"}

\* C33: the Orientation conversions are inverse on the defined range: a
\* native value 0..4 converted to an Orientation and back gives the value,
\* an Orientation converted to c_uint and back gives the Orientation; every
\* native value above 4 makes the conversion, and with it a successful
\* get_interface_orientation, panic, with neither Unknown nor an Err.
C33_OrientationInverse ==
    /\ \A k \in 1..Len(sb) :
        GaveOrientation(k)
        => IF sb[k].arg \in 0..4
           THEN sb[k].ret.kind = "Ok" /\ sb[k].ret.val \in Orientations
           ELSE sb[k].ret = SbPanic
    /\ \A k \in 1..(Len(sb) - 1) :
        /\ (GaveOrientation(k) /\ sb[k].ret.kind = "Ok"
            /\ sb[k + 1].fn = "c_uint::from" /\ sb[k + 1].arg = sb[k].ret.val)
           => sb[k + 1].ret = SbOk(sb[k].arg)
        /\ (sb[k].fn = "c_uint::from" /\ sb[k + 1].fn = "Orientation::from"
            /\ sb[k + 1].arg = sb[k].ret.val)
           => sb[k + 1].ret = SbOk(sb[k].arg)

\* LandscapeLeft went to 4 and back, then the device reported 5
C33_Witness ==
    /\ Len(sb) = 3
    /\ sb[1].fn = "c_uint::from" /\ sb[1].arg = "LandscapeLeft" /\ sb[1].ret = SbOk(4)
    /\ sb[2].fn = "Orientation::from" /\ sb[2].arg = 4 /\ sb[2].ret = SbOk("LandscapeLeft")
    /\ sb[3].fn = "get_interface_orientation" /\ sb[3].result = "Success"
    /\ sb[3].arg > 4 /\ sb[3].ret.kind = "panic"

\* the debug-server commands of idevicedebug, in the order of the claim
Commands == <<"QSetMaxPacketSize", "QSetWorkingDir", "set_argv", "qLaunchSuccess", "D">>

\* the calls made so far, by name
StepNames == [k \in 1..Len(tool.steps) |-> tool.steps[k].name]

\* the commands among the calls made so far
RECURSIVE CommandsIn(_)
CommandsIn(q) ==
    IF q = << >> THEN << >>
    ELSE IF \E c \in 1..Len(Commands) : Commands[c] = Head(q)
         THEN <<Head(q)>> \o CommandsIn(Tail(q))
         ELSE CommandsIn(Tail(q))

\* C31: idevicedebug sends QSetMaxPacketSize, QSetWorkingDir, set_argv,
\* qLaunchSuccess, D in this order, each only after every earlier step
\* returned Ok: only the last step made can have failed, and the commands
\* sent are a prefix of the five; after a failed step nothing more is done.
C31_StepsInOrderUntilErr ==
    /\ \A k \in 1..(Len(tool.steps) - 1) : tool.steps[k].res = "Ok"
    /\ StepNames = SubSeq(Steps, 1, Len(tool.steps))
    /\ CommandsIn(StepNames) = SubSeq(Commands, 1, Len(CommandsIn(StepNames)))
    /\ (tool.steps # << >> /\ tool.steps[Len(tool.steps)].res = "Err") => tool.pc = "exit"

\* set_argv failed after two commands went through: the run is over
C31_Witness ==
    /\ tool.pc = "exit"
    /\ CommandsIn(StepNames) = <<"QSetMaxPacketSize", "QSetWorkingDir", "set_argv">>
    /\ tool.steps[Len(tool.steps)] = [name |-> "set_argv", res |-> "Err"]

\* C32: the argument loop of idevicedebug ends without error for every
\* argument list: it never reads args at an index past the end, -u or
\* --udid as the last argument included, so it never panics; and no call
\* on a device is made when -h, -v or an unknown flag was met or no udid
\* was given.
C32_ArgLoopNeverPanics ==
    /\ \A k \in 1..Len(tool.reads) : InBounds(tool.args, tool.reads[k])
    /\ (tool.pc = "exit" /\ tool.steps = << >>)
       => tool.out \in {"help", "version", "unknown_flag", "no_udid"}
    /\ tool.out \in {"help", "version", "unknown_flag", "no_udid"} => tool.steps = << >>

====
